---- MODULE Spec2Model ----
(***************************************************************************)
(* Model of the three API clients of xiao-bai-skills:                      *)
(*   baidu_ai_client.py      BaiduAIClient   (token cache, TTS, OCR, image) *)
(*   dingtalk_assistant.py   DingTalkAssistant (token exchange, messages)   *)
(*   chinese_asr.py          ChineseSpeechRecognizer (cloud/offline ASR)    *)
(* The three files are independent programs; a behaviour of Spec runs one   *)
(* of them (variable program).  HTTP endpoints, the clock, the file system, *)
(* ffmpeg and the two recognition engines are the environment: each action  *)
(* draws their answers from small sets.                                     *)
(*                                                                         *)
(* Python values: a dict is a record / function (k in d  is  k \in DOMAIN d)*)
(* bytes are sequences of 0..255, None is the string "None", a raised       *)
(* exception is a result record of kind "raise" whose args are the values   *)
(* interpolated into its message, in order.                                 *)
(***************************************************************************)
EXTENDS Integers, Sequences, FiniteSets, TLC

VARIABLES
    program,          \* which of the three programs this behaviour runs
    now,              \* time.time(), seconds
    api_key,          \* BaiduAIClient.api_key
    secret_key,       \* BaiduAIClient.secret_key
    cache_tokens,     \* BaiduAIClient.cache_tokens
    tokens,           \* BaiduAIClient._tokens        (dict cache_key -> token)
    token_expiry,     \* BaiduAIClient._token_expiry  (dict cache_key -> time)
    has_endpoints,    \* whether __init__ got as far as assigning self.endpoints
    prev,             \* the token acquisition of the Baidu call before the last
    last,             \* the last Baidu call: inputs, requests sent, outcome
    threads,          \* the threads inside get_access_token: position and locals
    published,        \* which acquisition wrote the token and the expiry of a key
    environ,          \* os.environ, the variables the clients read
    init_environ,     \* os.environ as it was when the client was constructed
    dt_access_token,  \* DingTalkAssistant.access_token
    dt_last,          \* the last DingTalk call: inputs, requests sent, outcome
    asr_config,       \* ChineseSpeechRecognizer.config and whether vosk_model is set
    files,            \* the file system: path -> format of the file's content
    tmp_count,        \* how many temporary files have been created
    asr_last          \* the last recognition call: engines invoked, outcome

baiduVars == <<now, api_key, secret_key, cache_tokens, tokens, token_expiry,
               has_endpoints, prev, last>>
threadVars == <<threads, published>>
envVars == <<environ, init_environ>>
dtVars == <<dt_access_token, dt_last>>
asrVars == <<asr_config, files, tmp_count, asr_last>>

None == "None"

(***************************************************************************)
(* Bounds of the model.                                                     *)
(***************************************************************************)
MaxTime == 3300        \* the clock stops advancing here
MaxBytes == 3          \* longest byte string of a mocked image
MaxTemp == 2           \* temporary files created in one behaviour
MaxAcq == 3            \* token exchanges the threads of one behaviour complete

(***************************************************************************)
(* Results of a call.                                                       *)
(***************************************************************************)
Return(v) == [kind |-> "return", exc |-> "", args |-> << >>, value |-> v]
Raise(e, a) == [kind |-> "raise", exc |-> e, args |-> a, value |-> None]

\* str.startswith on texts that are sequences of one-character strings
StartsWith(s, prefix) ==
    Len(prefix) <= Len(s) /\ SubSeq(s, 1, Len(prefix)) = prefix

\* Content-Type values, as sequences of one-character strings; the empty
\* sequence is a response without the header
ApplicationJson ==
    <<"a","p","p","l","i","c","a","t","i","o","n","/","j","s","o","n">>
ApplicationJsonUtf8 ==
    ApplicationJson \o <<";","c","h","a","r","s","e","t","=","U","T","F","-","8">>
AudioMp3 == <<"a","u","d","i","o","/","m","p","3">>
TextHtml == <<"t","e","x","t","/","h","t","m","l">>

\* an HTTP response: status, Content-Type header, whether the body parses as
\* JSON, the parsed body, the raw body bytes, and the fragments of its text
Response(status, ctype, is_json, data, content, text) ==
    [status_code |-> status, content_type |-> ctype, is_json |-> is_json,
     data |-> data, content |-> content, text |-> text]
NoResponse == Response(0, << >>, FALSE, [none |-> None], << >>, << >>)


Is2xx(status) == 200 <= status /\ status < 300

\* dict.get(k, default)
Get(d, k, default) == IF k \in DOMAIN d THEN d[k] ELSE default

\* Python truth value of a string or None
Truthy(v) == v # None /\ v # ""
\* a or b
Or(a, b) == IF Truthy(a) THEN a ELSE b

\* os.getenv(name)
Getenv(env, name) == IF name \in DOMAIN env THEN env[name] ELSE None

\* the message of a raised exception carries the value v
Carries(result, v) == \E i \in 1..Len(result.args) : result.args[i] = v

(***************************************************************************)
(* class BaiduAIService(Enum): the members the enumeration defines, and    *)
(* their values.  Reading BaiduAIService.X for a name X that is not a       *)
(* member raises AttributeError.                                            *)
(***************************************************************************)
BaiduAIService ==
    [TTS |-> "tts", OCR |-> "ocr", WENXIN |-> "wenxin", NLP |-> "nlp", IMAGE |-> "image"]

HasMember(name) == name \in DOMAIN BaiduAIService

\* the members __init__ reads to build self.endpoints, in evaluation order
EndpointMembers == <<"TTS", "OCR_GENERAL", "OCR_ACCURATE", "WENXIN", "TOKEN">>

\* BaiduAIClient.__init__: the fields it assigns, and how it ends
BaiduAIClient_init(key, secret, proxy, cache, env) ==
    LET missing == {i \in 1..Len(EndpointMembers) : ~HasMember(EndpointMembers[i])}
        first == CHOOSE i \in missing : \A j \in missing : i <= j
    IN  [api_key |-> Or(key, Getenv(env, "BAIDU_API_KEY")),
         secret_key |-> Or(secret, Getenv(env, "BAIDU_SECRET_KEY")), proxy |-> proxy,
         cache_tokens |-> cache, tokens |-> << >>, token_expiry |-> << >>,
         has_endpoints |-> (missing = {}),
         result |-> IF missing = {} THEN Return(None)
                    ELSE Raise("AttributeError", <<EndpointMembers[first]>>)]

\* self.endpoints[BaiduAIService.X]: the attribute reads that can fail
EndpointLookup(self, name) ==
    IF ~self.has_endpoints THEN Raise("AttributeError", <<"endpoints">>)
    ELSE IF ~HasMember(name) THEN Raise("AttributeError", <<name>>)
    ELSE Return(name)

(***************************************************************************)
(* get_access_token                                                         *)
(***************************************************************************)
SafetyMargin == 300

\* cache_key = service.value if service else 'default'
CacheKey(service) == IF service = None THEN "default" ELSE BaiduAIService[service]

\* the cache check of lines 116-118
CacheHit(self, cache_key, t) ==
    /\ self.cache_tokens
    /\ cache_key \in DOMAIN self.tokens
    /\ cache_key \in DOMAIN self.token_expiry
    /\ t < self.token_expiry[cache_key]

\* the form body of the token request, lines 122-134
TokenParams(self, service) ==
    LET base == [grant_type |-> "client_credentials",
                 client_id |-> self.api_key, client_secret |-> self.secret_key]
    IN  IF service = "TTS" THEN base @@ [scope |-> "audio_tts_post"]
        ELSE IF service = "OCR" THEN base @@ [scope |-> "brain_ocr_general_basic"]
        ELSE IF service = "WENXIN" THEN base @@ [scope |-> "brain_all_scope"]
        ELSE base

\* token_expiry[cache_key] = time.time() + expires_in - 300
ExpiryOf(t, expires_in) == t + expires_in - SafetyMargin

\* response.json(): the parsed body, or JSONDecodeError
ParseFails(resp) == ~resp.is_json

\* lines 138-154: what get_access_token does with the token endpoint's answer
TokenExchange(self, cache_key, t, resp) ==
    LET same == [tokens |-> self.tokens, token_expiry |-> self.token_expiry]
    IN  IF resp.status_code # 200
        THEN same @@ [result |-> Raise("ValueError",
                        <<"token request failed", ToString(resp.status_code)>> \o resp.text)]
        ELSE IF ParseFails(resp)
        THEN same @@ [result |-> Raise("JSONDecodeError", << >>)]
        ELSE IF "error" \in DOMAIN resp.data
        THEN same @@ [result |-> Raise("ValueError",
                        <<"baidu error", Get(resp.data, "error_description", "unknown")>>)]
        ELSE IF "access_token" \notin DOMAIN resp.data
        THEN same @@ [result |-> Raise("KeyError", <<"access_token">>)]
        ELSE IF "expires_in" \notin DOMAIN resp.data
        THEN same @@ [result |-> Raise("KeyError", <<"expires_in">>)]
        ELSE IF self.cache_tokens
        THEN [tokens |-> (cache_key :> resp.data.access_token) @@ self.tokens,
              token_expiry |-> (cache_key :> ExpiryOf(t, resp.data.expires_in))
                                  @@ self.token_expiry,
              result |-> Return(resp.data.access_token)]
        ELSE same @@ [result |-> Return(resp.data.access_token)]

\* get_access_token(service) at time t, the token endpoint answering resp:
\* the outcome, the cache afterwards, the requests sent to the token endpoint
get_access_token(self, service, t, resp) ==
    LET cache_key == CacheKey(service)
        look == EndpointLookup(self, "TOKEN")
    IN  IF CacheHit(self, cache_key, t)
        THEN [result |-> Return(self.tokens[cache_key]), tokens |-> self.tokens,
              token_expiry |-> self.token_expiry, token_reqs |-> << >>,
              cache_hit |-> TRUE]
        ELSE IF look.kind = "raise"
        THEN [result |-> look, tokens |-> self.tokens,
              token_expiry |-> self.token_expiry, token_reqs |-> << >>,
              cache_hit |-> FALSE]
        ELSE TokenExchange(self, cache_key, t, resp)
                @@ [token_reqs |-> <<TokenParams(self, service)>>, cache_hit |-> FALSE]

(***************************************************************************)
(* base64.b64encode / base64.b64decode on byte strings.  A base64 text is a *)
(* sequence of one-character strings.                                       *)
(***************************************************************************)
B64Alphabet ==
    <<"A","B","C","D","E","F","G","H","I","J","K","L","M","N","O","P",
      "Q","R","S","T","U","V","W","X","Y","Z","a","b","c","d","e","f",
      "g","h","i","j","k","l","m","n","o","p","q","r","s","t","u","v",
      "w","x","y","z","0","1","2","3","4","5","6","7","8","9","+","/">>

B64Char(n) == B64Alphabet[n + 1]
IsB64Char(c) == \E i \in 1..64 : B64Alphabet[i] = c
B64Index(c) == (CHOOSE i \in 1..64 : B64Alphabet[i] = c) - 1

RECURSIVE b64encode(_)
b64encode(b) ==
    IF Len(b) = 0 THEN << >>
    ELSE IF Len(b) = 1
    THEN <<B64Char(b[1] \div 4), B64Char((b[1] % 4) * 16), "=", "=">>
    ELSE IF Len(b) = 2
    THEN <<B64Char(b[1] \div 4), B64Char((b[1] % 4) * 16 + b[2] \div 16),
           B64Char((b[2] % 16) * 4), "=">>
    ELSE <<B64Char(b[1] \div 4), B64Char((b[1] % 4) * 16 + b[2] \div 16),
           B64Char((b[2] % 16) * 4 + b[3] \div 64), B64Char(b[3] % 64)>>
         \o b64encode(SubSeq(b, 4, Len(b)))

\* binascii.a2b_base64 without strict mode, one character at a time: "="
\* ends the text once it completes a group of four that holds at least two
\* data characters, and is skipped otherwise; a character outside the
\* alphabet is skipped; a data character adds six bits.  quad_pos is the
\* number of data characters in the open group, leftchar the bits not yet
\* written, pads the padding characters seen since the last data character.
\* Returns the bytes, or raises binascii.Error when the text ends inside a
\* group.
RECURSIVE a2b_base64(_, _, _, _, _)
a2b_base64(s, quad_pos, leftchar, pads, out) ==
    IF Len(s) = 0
    THEN (IF quad_pos # 0 THEN Raise("binascii.Error", << >>) ELSE Return(out))
    ELSE LET this_ch == Head(s)
             rest == Tail(s)
         IN  IF this_ch = "="
             THEN IF quad_pos >= 2 /\ quad_pos + pads + 1 >= 4 THEN Return(out)
                  ELSE a2b_base64(rest, quad_pos, leftchar,
                                  IF quad_pos >= 2 THEN pads + 1 ELSE pads, out)
             ELSE IF ~IsB64Char(this_ch)
             THEN a2b_base64(rest, quad_pos, leftchar, pads, out)
             ELSE LET v == B64Index(this_ch)
                  IN  IF quad_pos = 0 THEN a2b_base64(rest, 1, v, 0, out)
                      ELSE IF quad_pos = 1
                      THEN a2b_base64(rest, 2, v % 16, 0,
                                      Append(out, leftchar * 4 + v \div 16))
                      ELSE IF quad_pos = 2
                      THEN a2b_base64(rest, 3, v % 4, 0,
                                      Append(out, leftchar * 16 + v \div 4))
                      ELSE a2b_base64(rest, 0, 0, 0, Append(out, leftchar * 64 + v))

\* base64.b64decode(s) of a text of ASCII characters
b64decode(s) == a2b_base64(s, 0, 0, 0, << >>)

(***************************************************************************)
(* text_to_speech                                                           *)
(***************************************************************************)
\* the form body of the TTS request, lines 168-186
TTSParams(config, access_token) ==
    LET base == [tex |-> config.text, tok |-> access_token, cuid |-> "baidu_tts_client",
                 ctp |-> "1", lan |-> "zh", spd |-> ToString(config.speed),
                 pit |-> ToString(config.pitch), vol |-> ToString(config.volume),
                 per |-> ToString(config.person)]
    IN  IF config.format = "mp3" THEN base @@ [aue |-> "3"]
        ELSE IF config.format = "pcm" THEN base @@ [aue |-> "4"]
        ELSE IF config.format = "wav" THEN base @@ [aue |-> "5"]
        ELSE base

\* response.headers.get('Content-Type', '').startswith('application/json')
IsJsonContentType(resp) == StartsWith(resp.content_type, ApplicationJson)

\* lines 190-195: what text_to_speech does with the TTS endpoint's answer
TTSResult(config, resp) ==
    IF IsJsonContentType(resp)
    THEN IF ParseFails(resp) THEN Raise("JSONDecodeError", << >>)
         ELSE Raise("ValueError", <<"tts error", Get(resp.data, "err_msg", "unknown")>>)
    ELSE Return(<<resp.content, config.text>>)

\* an operation that posts its request although get_access_token raised
TokenFailedStillSends(tk) ==
    [api_reqs |-> <<[access_token |-> None]>>, token_result |-> tk.result] @@ tk

\* an operation that ends because get_access_token raised: nothing is sent
\* to the API endpoint
TokenFailed(tk) == [api_reqs |-> << >>, token_result |-> tk.result] @@ tk

\* an operation after its token was obtained: the endpoint lookup, then the
\* request and the handling of the answer
Dispatch(self, tk, endpoint, params, handled) ==
    LET look == EndpointLookup(self, endpoint)
    IN  IF look.kind = "raise"
        THEN [result |-> look, api_reqs |-> << >>, token_result |-> tk.result] @@ tk
        ELSE [result |-> handled, api_reqs |-> <<params>>, token_result |-> tk.result] @@ tk

text_to_speech(self, config, t, token_resp, api_resp) ==
    LET tk == get_access_token(self, "TTS", t, token_resp)
    IN  IF tk.result.kind = "raise" THEN TokenFailed(tk)
        ELSE Dispatch(self, tk, "TTS", TTSParams(config, tk.result.value),
                      TTSResult(config, api_resp))

(***************************************************************************)
(* ocr_general, ocr_accurate                                                *)
(***************************************************************************)
PyBool(b) == IF b THEN "true" ELSE "false"

\* the form body of an OCR request, lines 210-219 and 256-265
OCRParams(config, access_token) ==
    [access_token |-> access_token, image |-> b64encode(config.image_data),
     language_type |-> config.language_type,
     detect_direction |-> PyBool(config.detect_direction),
     detect_language |-> PyBool(config.detect_language),
     paragraph |-> PyBool(config.paragraph)]

\* words = [item.get('words', '') for item in data.get('words_result', [])]
ExtractWords(data) ==
    LET items == Get(data, "words_result", << >>)
    IN  [i \in 1..Len(items) |-> Get(items[i], "words", "")]

\* lines 231-241 and 277-287: what an OCR call does with the endpoint's answer
OCRResult(label, resp) ==
    IF ParseFails(resp) THEN Raise("JSONDecodeError", << >>)
    ELSE IF "error_code" \in DOMAIN resp.data
    THEN Raise("ValueError", <<label, ToString(resp.data.error_code),
                               Get(resp.data, "error_msg", "unknown")>>)
    ELSE Return(ExtractWords(resp.data))

ocr_general(self, config, t, token_resp, api_resp) ==
    LET tk == get_access_token(self, "OCR", t, token_resp)
    IN  IF tk.result.kind = "raise" THEN TokenFailed(tk)
        ELSE Dispatch(self, tk, "OCR_GENERAL", OCRParams(config, tk.result.value),
                      OCRResult("ocr error", api_resp))

ocr_accurate(self, config, t, token_resp, api_resp) ==
    LET tk == get_access_token(self, "OCR", t, token_resp)
    IN  IF tk.result.kind = "raise" THEN TokenFailed(tk)
        ELSE Dispatch(self, tk, "OCR_ACCURATE", OCRParams(config, tk.result.value),
                      OCRResult("ocr accurate error", api_resp))

(***************************************************************************)
(* wenxin_image_generate                                                    *)
(***************************************************************************)
\* the JSON body of the image-generation request, lines 301-309
WenxinParams(config, access_token) ==
    [access_token |-> access_token, text |-> config.prompt, style |-> config.style,
     resolution |-> config.size, num |-> 1, steps |-> config.steps,
     guidance_scale |-> config.guidance]

\* lines 312-322: what wenxin_image_generate does with the endpoint's answer
WenxinResult(resp) ==
    IF ParseFails(resp) THEN Raise("JSONDecodeError", << >>)
    ELSE IF "error_code" \in DOMAIN resp.data
    THEN Raise("ValueError", <<"wenxin error", ToString(resp.data.error_code),
                               Get(resp.data, "error_msg", "unknown")>>)
    ELSE IF "data" \in DOMAIN resp.data /\ "image" \in DOMAIN resp.data.data
    THEN b64decode(resp.data.data.image)
    ELSE Raise("ValueError", <<"wenxin response format error">>)

wenxin_image_generate(self, config, t, token_resp, api_resp) ==
    LET tk == get_access_token(self, "WENXIN", t, token_resp)
    IN  IF tk.result.kind = "raise" THEN TokenFailed(tk)
        ELSE Dispatch(self, tk, "WENXIN", WenxinParams(config, tk.result.value),
                      WenxinResult(api_resp))

(***************************************************************************)
(* The mocked Baidu endpoints and the inputs of the calls.                  *)
(***************************************************************************)
JsonResponse(status, data, text) ==
    Response(status, ApplicationJson, TRUE, data, << >>, text)
RawResponse(status, ctype, content) ==
    Response(status, ctype, FALSE, [none |-> None], content, << >>)

TokenOK(token, expires_in) ==
    JsonResponse(200, [access_token |-> token, expires_in |-> expires_in], << >>)
TokenError(status) ==
    JsonResponse(status, [error |-> "invalid_client",
                          error_description |-> "unknown client id"],
                 <<"invalid_client", "unknown client id">>)
TokenResponses == {TokenOK("T1", 3600), TokenOK("T2", 200), TokenError(401), TokenError(200)}

TTSResponses ==
    { RawResponse(200, AudioMp3, <<73, 68, 51>>),
      JsonResponse(200, [err_no |-> 502, err_msg |-> "token expired"], << >>),
      [JsonResponse(200, [err_no |-> 501, err_msg |-> "bad text"], << >>)
          EXCEPT !.content_type = ApplicationJsonUtf8],
      RawResponse(500, TextHtml, <<60, 104>>) }

OCRError(status) ==
    JsonResponse(status, [error_code |-> 110, error_msg |-> "Access token invalid"], << >>)
OCRResponses ==
    { JsonResponse(200, [words_result |-> <<[words |-> "ni hao"], [words |-> "shi jie"]>>,
                         words_result_num |-> 2], << >>),
      OCRError(200),
      JsonResponse(500, [words_result |-> <<[words |-> "shi jie"], [other |-> 1]>>], << >>) }

ImageBytes == {<<255>>, <<137, 80, 78>>}
WenxinOK(b) == JsonResponse(200, [data |-> [image |-> b64encode(b)]], << >>)
WenxinResponses ==
    {WenxinOK(b) : b \in {x \in ImageBytes : Len(x) <= MaxBytes}}
        \cup { JsonResponse(200, [error_code |-> 17, error_msg |-> "Open api daily request limit reached"], << >>),
               JsonResponse(502, [data |-> [task_id |-> 7]], << >>),
               \* an image text whose last group is cut short by padding
               JsonResponse(200, [data |-> [image |-> <<"Q", "Q", "=", "Q">>]], << >>) }

Services == {None, "TTS", "OCR", "WENXIN"}

\* the api_key and secret_key arguments of the constructor
KeyArguments == {<<None, None>>, <<"AK", "SK">>}

TTSConfig == [text |-> "ni hao", speed |-> 5, pitch |-> 5, volume |-> 5,
              person |-> 0, format |-> "mp3"]
OCRConfig == [image_data |-> <<137, 80>>, language_type |-> "CHN_ENG",
              detect_direction |-> FALSE, detect_language |-> FALSE, paragraph |-> FALSE]
WenxinConfig == [prompt |-> "shan shui", style |-> "default", size |-> "1024x1024",
                 steps |-> 30, guidance |-> 75]

\* how far one step of the environment moves the clock
ClockSteps == {3000, 3300}

(***************************************************************************)
(* The BaiduAIClient instance of the behaviour, and the record of a call.   *)
(* The instance has the fields __init__ assigned before it ended (Init);    *)
(* the operations are called on it.                                         *)
(***************************************************************************)
Self == [api_key |-> api_key, secret_key |-> secret_key, cache_tokens |-> cache_tokens,
         tokens |-> tokens, token_expiry |-> token_expiry,
         has_endpoints |-> has_endpoints]

NoCall == [op |-> "none", key |-> "", time |-> 0, token_resp |-> NoResponse,
           api_resp |-> NoResponse, token_result |-> Raise("", << >>),
           result |-> Raise("", << >>),
           token_reqs |-> << >>, api_reqs |-> << >>, cache_hit |-> FALSE,
           tokens_before |-> << >>, expiry_before |-> << >>,
           init_keys |-> <<None, None>>]

\* the token acquisition of a call, kept when the next call is made
TokenPart(call) == [key |-> call.key, time |-> call.time,
                    token_resp |-> call.token_resp, token_result |-> call.token_result,
                    cache_hit |-> call.cache_hit]

Call(op, key, token_resp, api_resp, out) ==
    [op |-> op, key |-> key, time |-> now, token_resp |-> token_resp,
     api_resp |-> api_resp, token_result |-> out.token_result, result |-> out.result,
     token_reqs |-> out.token_reqs, api_reqs |-> out.api_reqs,
     cache_hit |-> out.cache_hit,
     tokens_before |-> tokens, expiry_before |-> token_expiry,
     init_keys |-> last.init_keys]

Finish(op, key, token_resp, api_resp, out) ==
    /\ tokens' = out.tokens
    /\ token_expiry' = out.token_expiry
    /\ prev' = TokenPart(last)
    /\ last' = Call(op, key, token_resp, api_resp, out)
    /\ UNCHANGED <<program, now, api_key, secret_key, cache_tokens, has_endpoints,
                   threadVars, envVars, dtVars, asrVars>>

BaiduGetAccessToken ==
    /\ program = "baidu"
    /\ \E service \in Services, resp \in TokenResponses :
          LET tk == get_access_token(Self, service, now, resp)
          IN  Finish("get_access_token", CacheKey(service), resp, NoResponse,
                     [api_reqs |-> << >>, token_result |-> tk.result] @@ tk)

BaiduTextToSpeech ==
    /\ program = "baidu"
    /\ \E tr \in TokenResponses, ar \in TTSResponses :
          Finish("text_to_speech", CacheKey("TTS"), tr, ar,
                 text_to_speech(Self, TTSConfig, now, tr, ar))

BaiduOcrGeneral ==
    /\ program = "baidu"
    /\ \E tr \in TokenResponses, ar \in OCRResponses :
          Finish("ocr_general", CacheKey("OCR"), tr, ar,
                 ocr_general(Self, OCRConfig, now, tr, ar))

BaiduOcrAccurate ==
    /\ program = "baidu"
    /\ \E tr \in TokenResponses, ar \in OCRResponses :
          Finish("ocr_accurate", CacheKey("OCR"), tr, ar,
                 ocr_accurate(Self, OCRConfig, now, tr, ar))

BaiduWenxinImageGenerate ==
    /\ program = "baidu"
    /\ \E tr \in TokenResponses, ar \in WenxinResponses :
          Finish("wenxin_image_generate", CacheKey("WENXIN"), tr, ar,
                 wenxin_image_generate(Self, WenxinConfig, now, tr, ar))

\* time passes between two calls
Tick ==
    /\ program \in {"baidu", "baidu_threads"}
    /\ \E d \in ClockSteps : now + d <= MaxTime /\ now' = now + d
    /\ UNCHANGED <<program, api_key, secret_key, cache_tokens, tokens, token_expiry,
                   has_endpoints, prev, last, threadVars, envVars, dtVars, asrVars>>

(***************************************************************************)
(* Threads inside get_access_token.  A thread runs lines 115-154 one shared *)
(* read or write at a time, and any other thread, or the clock, may run     *)
(* between two of them: the membership tests on _tokens and _token_expiry   *)
(* (116-117), the clock read and the expiry read of line 118, the read of   *)
(* the cached token (119), the exchange (121-147), the write of the token   *)
(* (151), the clock read and the write of the expiry (152).  published      *)
(* records, for each cache key, the acquisition that wrote its token and    *)
(* the one that wrote its expiry.                                           *)
(***************************************************************************)
Threads == {"t1", "t2"}
ThreadServices == {None, "OCR"}

IdleThread == [pc |-> "idle", key |-> "", access_token |-> None, expires_in |-> 0,
               acq |-> 0, cache_hit |-> FALSE, expiry_by |-> 0, token_by |-> 0,
               clock |-> 0, result |-> Raise("", << >>)]
NothingPublished == [token |-> << >>, expiry |-> << >>, count |-> 0]

\* lines 115-116: the thread enters get_access_token, computes the cache key
\* and reads cache_tokens, which nothing writes after construction
ThreadEnter(self, pub, service, t) ==
    IF self.cache_tokens
    THEN [IdleThread EXCEPT !.pc = "in_tokens", !.key = CacheKey(service)]
    ELSE [IdleThread EXCEPT !.pc = "exchange", !.key = CacheKey(service)]

\* the next shared read or write of a thread that is inside
\* get_access_token: the thread, the cache and the publication record
\* afterwards
ThreadStatement(self, th, pub, t, resp) ==
    LET same == [tokens |-> self.tokens, token_expiry |-> self.token_expiry,
                 published |-> pub]
        goto(pc) == [th EXCEPT !.pc = pc]
        done(r) == [th EXCEPT !.pc = "done", !.result = r]
    IN  IF th.pc = "in_tokens"
        THEN same @@ [thread |-> IF th.key \in DOMAIN self.tokens
                                 THEN goto("in_expiry") ELSE goto("exchange")]
        ELSE IF th.pc = "in_expiry"
        THEN same @@ [thread |-> IF th.key \in DOMAIN self.token_expiry
                                 THEN goto("clock") ELSE goto("exchange")]
        ELSE IF th.pc = "clock"
        THEN same @@ [thread |-> [th EXCEPT !.pc = "expiry", !.clock = t]]
        ELSE IF th.pc = "expiry"
        THEN same @@ [thread |-> IF th.clock < self.token_expiry[th.key]
                                 THEN [th EXCEPT !.pc = "read", !.cache_hit = TRUE,
                                                 !.expiry_by = pub.expiry[th.key]]
                                 ELSE goto("exchange")]
        ELSE IF th.pc = "read"
        THEN same @@ [thread |-> [done(Return(self.tokens[th.key]))
                                     EXCEPT !.token_by = pub.token[th.key]]]
        ELSE IF th.pc = "exchange"
        THEN LET look == EndpointLookup(self, "TOKEN")
                 ex == TokenExchange([self EXCEPT !.cache_tokens = FALSE], th.key, t, resp)
             IN  IF look.kind = "raise" THEN same @@ [thread |-> done(look)]
                 ELSE IF ex.result.kind = "raise" \/ ~self.cache_tokens
                 THEN same @@ [thread |-> done(ex.result)]
                 ELSE [tokens |-> self.tokens, token_expiry |-> self.token_expiry,
                       published |-> [pub EXCEPT !.count = @ + 1],
                       thread |-> [th EXCEPT !.pc = "publish_token",
                                             !.access_token = resp.data.access_token,
                                             !.expires_in = resp.data.expires_in,
                                             !.acq = pub.count + 1]]
        ELSE IF th.pc = "publish_token"
        THEN [tokens |-> (th.key :> th.access_token) @@ self.tokens,
              token_expiry |-> self.token_expiry,
              published |-> [pub EXCEPT !.token = (th.key :> th.acq) @@ @],
              thread |-> goto("expiry_clock")]
        ELSE IF th.pc = "expiry_clock"
        THEN same @@ [thread |-> [th EXCEPT !.pc = "publish_expiry", !.clock = t]]
        ELSE [tokens |-> self.tokens,
              token_expiry |-> (th.key :> ExpiryOf(th.clock, th.expires_in))
                                  @@ self.token_expiry,
              published |-> [pub EXCEPT !.expiry = (th.key :> th.acq) @@ @],
              thread |-> done(Return(th.access_token))]

ThreadCall ==
    /\ program = "baidu_threads"
    /\ \E th \in Threads, service \in ThreadServices :
          /\ threads[th].pc \in {"idle", "done"}
          /\ threads' = [threads EXCEPT ![th] = ThreadEnter(Self, published, service, now)]
    /\ UNCHANGED <<program, baiduVars, published, envVars, dtVars, asrVars>>

ThreadStep ==
    /\ program = "baidu_threads"
    /\ \E th \in Threads, resp \in TokenResponses :
          /\ threads[th].pc \notin {"idle", "done"}
          /\ threads[th].pc = "exchange" => published.count < MaxAcq
          /\ LET out == ThreadStatement(Self, threads[th], published, now, resp)
             IN  /\ threads' = [threads EXCEPT ![th] = out.thread]
                 /\ tokens' = out.tokens
                 /\ token_expiry' = out.token_expiry
                 /\ published' = out.published
    /\ UNCHANGED <<program, now, api_key, secret_key, cache_tokens, has_endpoints,
                   prev, last, envVars, dtVars, asrVars>>

(***************************************************************************)
(* The environment variables the clients read, and a change of one of them  *)
(* by the process between two operations.  The BaiduAIClient whose          *)
(* environment changes is the one the threads call.                         *)
(***************************************************************************)
EnvNames == {"BAIDU_API_KEY", "BAIDU_SECRET_KEY", "DINGTALK_ACCESS_TOKEN",
             "DINGTALK_ROBOT_CODE"}
EnvValues == {None, "env1"}
ProgramEnv(prog) ==
    IF prog = "baidu_threads" THEN {"BAIDU_API_KEY", "BAIDU_SECRET_KEY"}
    ELSE IF prog = "dingtalk" THEN {"DINGTALK_ACCESS_TOKEN", "DINGTALK_ROBOT_CODE"}
    ELSE {}

SetEnv ==
    /\ \E k \in ProgramEnv(program), v \in EnvValues :
          /\ environ[k] # v
          /\ environ' = [environ EXCEPT ![k] = v]
    /\ UNCHANGED <<program, baiduVars, threadVars, init_environ, dtVars, asrVars>>

(***************************************************************************)
(* DingTalkAssistant                                                        *)
(***************************************************************************)
\* DingTalkAssistant.__init__: self.access_token
DingTalkAssistant_init(access_token, env) ==
    Or(access_token, Getenv(env, "DINGTALK_ACCESS_TOKEN"))

\* response.raise_for_status(): HTTPError for 4xx and 5xx, nothing otherwise
RaisesForStatus(resp) == 400 <= resp.status_code /\ resp.status_code < 600

\* raise_for_status() followed by response.json()
CheckedJson(resp) ==
    IF RaisesForStatus(resp) THEN Raise("HTTPError", <<ToString(resp.status_code)>>)
    ELSE IF ParseFails(resp) THEN Raise("JSONDecodeError", << >>)
    ELSE Return(resp.data)

\* DingTalkAssistant.get_access_token: outcome, self.access_token afterwards,
\* requests sent
dt_get_access_token(access_token, client_id, client_secret, resp) ==
    LET req == [url |-> "/oauth2/accessToken",
                json |-> [appKey |-> client_id, appSecret |-> client_secret]]
        parsed == CheckedJson(resp)
    IN  IF parsed.kind = "raise"
        THEN [result |-> parsed, access_token |-> access_token, reqs |-> <<req>>]
        ELSE LET tok == Get(resp.data, "accessToken", None)
             IN  [result |-> Return(tok), access_token |-> tok, reqs |-> <<req>>]

\* the batchSend request every message operation posts
SendRequest(access_token, robot_code, user_ids, msg_key, msg_param) ==
    [url |-> "/robot/oToMessages/batchSend",
     token_header |-> access_token,
     json |-> [robotCode |-> robot_code, userIds |-> user_ids, msgKey |-> msg_key,
               msgParam |-> msg_param]]

\* post, raise_for_status, return response.json()
Post(access_token, req, resp) ==
    [result |-> CheckedJson(resp), access_token |-> access_token, reqs |-> <<req>>]

NotSent(access_token, result) ==
    [result |-> result, access_token |-> access_token, reqs |-> << >>]

send_text_message(access_token, env, user_id, content, robot_code, resp) ==
    LET rc == Or(robot_code, Getenv(env, "DINGTALK_ROBOT_CODE"))
    IN  IF ~Truthy(access_token)
        THEN NotSent(access_token, Raise("ValueError", <<"access token not set">>))
        ELSE IF ~Truthy(rc)
        THEN NotSent(access_token, Raise("ValueError", <<"robot code not set">>))
        ELSE Post(access_token,
                  SendRequest(access_token, rc, <<user_id>>, "sampleText",
                              [content |-> content]), resp)

\* a send that takes the robot code from its argument only
send_markdown_message_NoEnv(access_token, env, user_id, title, text, robot_code, resp) ==
    Post(access_token,
         SendRequest(access_token, robot_code, <<user_id>>, "sampleMarkdown",
                     [title |-> title, text |-> text]), resp)

send_markdown_message(access_token, env, user_id, title, text, robot_code, resp) ==
    LET rc == Or(robot_code, Getenv(env, "DINGTALK_ROBOT_CODE"))
    IN  Post(access_token,
             SendRequest(access_token, rc, <<user_id>>, "sampleMarkdown",
                         [title |-> title, text |-> text]), resp)

send_link_message(access_token, env, user_id, title, text, message_url, pic_url, robot_code, resp) ==
    LET rc == Or(robot_code, Getenv(env, "DINGTALK_ROBOT_CODE"))
        base == [title |-> title, text |-> text, messageUrl |-> message_url]
        msg_param == IF Truthy(pic_url) THEN base @@ [picUrl |-> pic_url] ELSE base
    IN  Post(access_token,
             SendRequest(access_token, rc, <<user_id>>, "sampleLink", msg_param), resp)

batch_send(access_token, env, user_ids, msg_key, msg_param, robot_code, resp) ==
    LET rc == Or(robot_code, Getenv(env, "DINGTALK_ROBOT_CODE"))
    IN  Post(access_token,
             SendRequest(access_token, rc, user_ids, msg_key, msg_param), resp)

(***************************************************************************)
(* The mocked DingTalk endpoints and the DingTalk actions.                  *)
(***************************************************************************)
DingError(status) ==
    JsonResponse(status, [code |-> "invalidClientIdOrSecret",
                          message |-> "invalid appKey or appSecret"], << >>)
DingTokenResponses ==
    { JsonResponse(200, [accessToken |-> "D1", expireIn |-> 7200], << >>),
      DingError(200), DingError(400), DingError(300),
      RawResponse(502, TextHtml, <<60, 104>>) }

DingSendResponses ==
    { JsonResponse(200, [processQueryKey |-> "q1"], << >>),
      DingError(400), DingError(300),
      RawResponse(502, TextHtml, <<60, 104>>),
      RawResponse(204, << >>, << >>) }

RobotCodes == {None, "robot1"}

DtNoCall == [op |-> "none", resp |-> NoResponse, result |-> Raise("", << >>),
             reqs |-> << >>, token_before |-> None, robot_code |-> None,
             env_robot_code |-> None]

DtFinish(op, robot_code, resp, out) ==
    /\ dt_access_token' = out.access_token
    /\ dt_last' = [op |-> op, resp |-> resp, result |-> out.result, reqs |-> out.reqs,
                   token_before |-> dt_access_token, robot_code |-> robot_code,
                   env_robot_code |-> Getenv(environ, "DINGTALK_ROBOT_CODE")]
    /\ UNCHANGED <<program, baiduVars, threadVars, envVars, asrVars>>

DtGetAccessToken ==
    /\ program = "dingtalk"
    /\ \E resp \in DingTokenResponses :
          DtFinish("get_access_token", None, resp,
                   dt_get_access_token(dt_access_token, "app1", "secret1", resp))

DtSendTextMessage ==
    /\ program = "dingtalk"
    /\ \E rc \in RobotCodes, resp \in DingSendResponses :
          DtFinish("send_text_message", rc, resp,
                   send_text_message(dt_access_token, environ, "u1", "hello", rc, resp))

DtSendMarkdownMessage ==
    /\ program = "dingtalk"
    /\ \E rc \in RobotCodes, resp \in DingSendResponses :
          DtFinish("send_markdown_message", rc, resp,
                   send_markdown_message(dt_access_token, environ, "u1", "title",
                                         "text", rc, resp))

DtSendLinkMessage ==
    /\ program = "dingtalk"
    /\ \E rc \in RobotCodes, pic \in {None, "pic1"}, resp \in DingSendResponses :
          DtFinish("send_link_message", rc, resp,
                   send_link_message(dt_access_token, environ, "u1", "title", "text",
                                     "url1", pic, rc, resp))

DtBatchSend ==
    /\ program = "dingtalk"
    /\ \E rc \in RobotCodes, resp \in DingSendResponses :
          DtFinish("batch_send", rc, resp,
                   batch_send(dt_access_token, environ, <<"u1", "u2">>, "sampleText",
                              [content |-> "hello"], rc, resp))

(***************************************************************************)
(* ChineseSpeechRecognizer.  A RecognitionResult is a record of text,       *)
(* confidence (in hundredths), mode and error (None or a message);          *)
(* processing_time is left out.  A path and a format name are sequences of  *)
(* one-character strings.  The file system maps each existing path to the   *)
(* format of its content, the empty sequence for an empty file.             *)
(***************************************************************************)
RecognitionResult(text, confidence, mode, error) ==
    [text |-> text, confidence |-> confidence, mode |-> mode, error |-> error]

Wav == <<"w", "a", "v">>
Flac == <<"f", "l", "a", "c">>
Ogg == <<"o", "g", "g">>
EmptyFile == << >>

\* the position of the last c in s, 0 when there is none (str.rfind, from 1)
LastIndexOf(s, c) ==
    LET I == {i \in 1..Len(s) : s[i] = c}
    IN  IF I = {} THEN 0 ELSE CHOOSE i \in I : \A j \in I : j <= i

\* PurePosixPath(p).name: the last component of the path, where empty
\* components and "." components do not count
RECURSIVE PathName(_)
PathName(path) ==
    IF Len(path) = 0 THEN << >>
    ELSE LET k == LastIndexOf(path, "/")
             tail == SubSeq(path, k + 1, Len(path))
         IN  IF tail = << >> \/ tail = <<".">>
             THEN PathName(SubSeq(path, 1, k - 1))
             ELSE tail

\* str.lower() on ASCII letters
UpperCase ==
    <<"A","B","C","D","E","F","G","H","I","J","K","L","M",
      "N","O","P","Q","R","S","T","U","V","W","X","Y","Z">>
LowerCase ==
    <<"a","b","c","d","e","f","g","h","i","j","k","l","m",
      "n","o","p","q","r","s","t","u","v","w","x","y","z">>
LowerChar(c) ==
    IF \E i \in 1..26 : UpperCase[i] = c
    THEN LowerCase[CHOOSE i \in 1..26 : UpperCase[i] = c]
    ELSE c
Lower(s) == [i \in 1..Len(s) |-> LowerChar(s[i])]

\* Path(p).suffix.lower(), line 102: the name from its last dot on, when that
\* dot is neither the first nor the last character of the name
Suffix(path) ==
    LET name == PathName(path)
        i == LastIndexOf(name, ".")
    IN  IF 1 < i /\ i < Len(name) THEN Lower(SubSeq(name, i, Len(name))) ELSE << >>

Exists(fs, path) == path \in DOMAIN fs
RemoveFile(fs, path) == [p \in DOMAIN fs \ {path} |-> fs[p]]
WriteFile(fs, path, fmt) == (path :> fmt) @@ fs

\* tempfile.NamedTemporaryFile(suffix=..., delete=False): a fresh path
RECURSIVE Digits(_)
Digits(n) == IF n < 10 THEN <<ToString(n)>> ELSE Digits(n \div 10) \o <<ToString(n % 10)>>
TempPath(n, suffix) == <<"t", "m", "p">> \o Digits(n + 1) \o suffix

\* convert_audio_format: the path returned, the file system afterwards and
\* the number of temporary files created
convert_audio_format(config, fs, n, input_path, output_format, ffmpeg) ==
    IF Suffix(input_path) \in {<<".">> \o Wav, <<".">> \o Flac}
       /\ ~config.auto_convert_formats
    THEN [path |-> input_path, fs |-> fs, tmp_count |-> n, created |-> << >>]
    ELSE LET output_path == TempPath(n, <<".">> \o output_format)
             created == WriteFile(fs, output_path, EmptyFile)
         IN  IF ffmpeg = "ok"
             THEN [path |-> output_path,
                   fs |-> WriteFile(created, output_path, output_format),
                   tmp_count |-> n + 1, created |-> <<output_path>>]
             ELSE [path |-> input_path, fs |-> created, tmp_count |-> n + 1,
                   created |-> <<output_path>>]

\* recognize_with_google on a file of format fmt, the speech library ending
\* as outcome says
recognize_with_google(config, fmt, outcome) ==
    IF fmt \notin {Wav, Flac}
    THEN RecognitionResult("", 0, "GOOGLE", "recognition error")
    ELSE IF outcome.exc = "UnknownValueError"
    THEN RecognitionResult("", 0, "GOOGLE", "could not understand audio")
    ELSE IF outcome.exc = "RequestError"
    THEN RecognitionResult("", 0, "GOOGLE", "Google API request failed")
    ELSE IF outcome.exc # None
    THEN RecognitionResult("", 0, "GOOGLE", "recognition error")
    ELSE RecognitionResult(outcome.text, 90, "GOOGLE", None)

\* " ".join(pieces).strip(), for pieces without blanks at their ends
RECURSIVE Join(_)
Join(pieces) ==
    IF Len(pieces) = 0 THEN ""
    ELSE IF Len(pieces) = 1 THEN pieces[1]
    ELSE pieces[1] \o " " \o Join(Tail(pieces))
RECURSIVE StripPieces(_)
StripPieces(pieces) ==
    IF Len(pieces) = 0 THEN pieces
    ELSE IF pieces[1] = "" THEN StripPieces(Tail(pieces))
    ELSE IF pieces[Len(pieces)] = "" THEN StripPieces(SubSeq(pieces, 1, Len(pieces) - 1))
    ELSE pieces
JoinStrip(pieces) == Join(StripPieces(pieces))

\* recognize_with_vosk
recognize_with_vosk(config, vosk_model, fmt, outcome) ==
    IF ~vosk_model
    THEN RecognitionResult("", 0, "VOSK", "Vosk model not loaded")
    ELSE IF outcome.exc = "ImportError"
    THEN RecognitionResult("", 0, "VOSK", "Vosk not installed")
    ELSE IF outcome.exc # None \/ fmt # Wav
    THEN RecognitionResult("", 0, "VOSK", "Vosk recognition failed")
    ELSE RecognitionResult(JoinStrip(outcome.results \o <<outcome.final_text>>),
                           80, "VOSK", None)

\* line 327: the cloud result makes HYBRID mode fall back to the offline engine
NeedsFallback(google_result) == google_result.error # None \/ google_result.text = ""

\* line 329: the path handed to the offline engine in the fallback
FallbackPath(audio_path, converted_path) == converted_path

\* lines 320-342: the engines invoked for the mode, and the result
Recognize(config, vosk_model, fs, audio_path, converted_path, env) ==
    LET fmt == fs[converted_path]
        g == recognize_with_google(config, fmt, env.google)
        vpath == FallbackPath(audio_path, converted_path)
        v == recognize_with_vosk(config, vosk_model, fs[vpath], env.vosk)
        none == RecognitionResult("", 0, "none", None)
    IN  IF config.mode = "GOOGLE"
        THEN [result |-> g, google_calls |-> <<converted_path>>, vosk_calls |-> << >>,
              google_result |-> g, vosk_result |-> none]
        ELSE IF config.mode = "VOSK"
        THEN LET r == recognize_with_vosk(config, vosk_model, fmt, env.vosk)
             IN  [result |-> r, google_calls |-> << >>, vosk_calls |-> <<converted_path>>,
                  google_result |-> none, vosk_result |-> r]
        ELSE IF config.mode = "HYBRID"
        THEN IF NeedsFallback(g)
             THEN [result |-> [v EXCEPT !.mode = "HYBRID"],
                   google_calls |-> <<converted_path>>, vosk_calls |-> <<vpath>>,
                   google_result |-> g, vosk_result |-> v]
             ELSE [result |-> [g EXCEPT !.mode = "HYBRID"],
                   google_calls |-> <<converted_path>>, vosk_calls |-> << >>,
                   google_result |-> g, vosk_result |-> none]
        ELSE [result |-> RecognitionResult("", 0, config.mode, "unknown mode"),
              google_calls |-> << >>, vosk_calls |-> << >>,
              google_result |-> none, vosk_result |-> none]

\* lines 344-369: the cleanup of the temporary file after recognition, and
\* the handler of an exception raised by it.  env.remove1 and env.remove2
\* say whether the first and the second os.remove succeed.
Cleanup(fs, is_temp, converted_path, result, env) ==
    IF ~(is_temp /\ Exists(fs, converted_path))
    THEN [result |-> Return(result), fs |-> fs, removed |-> << >>,
          remove_failed |-> FALSE]
    ELSE IF env.remove1
    THEN [result |-> Return(result), fs |-> RemoveFile(fs, converted_path),
          removed |-> <<converted_path>>, remove_failed |-> FALSE]
    ELSE IF ~env.remove2
    THEN [result |-> Raise("OSError", <<converted_path>>), fs |-> fs, removed |-> << >>,
          remove_failed |-> TRUE]
    ELSE [result |-> Raise("NameError", <<"start_time">>),
          fs |-> RemoveFile(fs, converted_path), removed |-> <<converted_path>>,
          remove_failed |-> TRUE]

\* a cleanup flag that takes every converted path for a temporary file
IsTempAlways(audio_path, converted_path) == TRUE

\* line 313: is_temp = converted_path != audio_path
IsTemp(audio_path, converted_path) == converted_path # audio_path

\* recognize_audio
recognize_audio(config, vosk_model, fs, n, audio_path, env) ==
    IF ~Exists(fs, audio_path)
    THEN [result |-> Return(RecognitionResult("", 0, config.mode, "file not found")),
          fs |-> fs, tmp_count |-> n, converted_path |-> audio_path, is_temp |-> FALSE,
          created |-> << >>,
          google_calls |-> << >>, vosk_calls |-> << >>, removed |-> << >>,
          remove_failed |-> FALSE,
          google_result |-> RecognitionResult("", 0, "none", None),
          vosk_result |-> RecognitionResult("", 0, "none", None)]
    ELSE LET conv == IF config.auto_convert_formats
                     THEN convert_audio_format(config, fs, n, audio_path, Wav, env.ffmpeg)
                     ELSE [path |-> audio_path, fs |-> fs, tmp_count |-> n,
                           created |-> << >>]
             is_temp == IF config.auto_convert_formats
                        THEN IsTemp(audio_path, conv.path) ELSE FALSE
             rec == Recognize(config, vosk_model, conv.fs, audio_path, conv.path, env)
             clean == Cleanup(conv.fs, is_temp, conv.path, rec.result, env)
         IN  [result |-> clean.result, fs |-> clean.fs, tmp_count |-> conv.tmp_count,
              converted_path |-> conv.path, is_temp |-> is_temp,
              created |-> conv.created,
              google_calls |-> rec.google_calls, vosk_calls |-> rec.vosk_calls,
              removed |-> clean.removed, remove_failed |-> clean.remove_failed,
              google_result |-> rec.google_result, vosk_result |-> rec.vosk_result]

(***************************************************************************)
(* recognize_dingtalk_voice.  env.ffmpeg_dt is how the ffmpeg run of line   *)
(* 395 ends, env.remove3 and env.remove4 whether os.remove succeeds at line *)
(* 402 and in the handler at line 414.                                      *)
(***************************************************************************)
\* lines 411-423: the handler of an exception other than CalledProcessError
DingtalkHandler(config, fs, wav_path, env) ==
    LET failed == RecognitionResult("", 0, config.mode, "dingtalk voice processing failed")
    IN  IF ~Exists(fs, wav_path)
        THEN [result |-> Return(failed), fs |-> fs, removed |-> << >>]
        ELSE IF env.remove4
        THEN [result |-> Return(failed), fs |-> RemoveFile(fs, wav_path),
              removed |-> <<wav_path>>]
        ELSE [result |-> Raise("OSError", <<wav_path>>), fs |-> fs, removed |-> << >>]

\* the part of a call's record that describes a recognize_audio call it made
Inner(audio_path, ra) ==
    [ra_called |-> TRUE, ra_input |-> audio_path, ra_result |-> ra.result]
NoInner ==
    [ra_called |-> FALSE, ra_input |-> << >>, ra_result |-> Raise("", << >>),
     converted_path |-> << >>, is_temp |-> FALSE, google_calls |-> << >>,
     vosk_calls |-> << >>, remove_failed |-> FALSE,
     google_result |-> RecognitionResult("", 0, "none", None),
     vosk_result |-> RecognitionResult("", 0, "none", None)]

recognize_dingtalk_voice(config, vosk_model, fs, n, ogg_path, env) ==
    LET wav_path == TempPath(n, <<".">> \o Wav)
        fs1 == WriteFile(fs, wav_path, EmptyFile)
        ffmpeg == env.ffmpeg_dt
    IN  IF ffmpeg = "ok"
        THEN LET ra == recognize_audio(config, vosk_model, WriteFile(fs1, wav_path, Wav),
                                       n + 1, wav_path, env)
                 h == DingtalkHandler(config, ra.fs, wav_path, env)
             IN  IF ra.result.kind = "raise" \/ ~env.remove3
                 THEN [result |-> h.result, fs |-> h.fs,
                       removed |-> ra.removed \o h.removed,
                       created |-> <<wav_path>> \o ra.created]
                          @@ Inner(wav_path, ra) @@ ra
                 ELSE [result |-> ra.result, fs |-> RemoveFile(ra.fs, wav_path),
                       removed |-> ra.removed \o <<wav_path>>,
                       created |-> <<wav_path>> \o ra.created]
                          @@ Inner(wav_path, ra) @@ ra
        ELSE IF ffmpeg = "CalledProcessError"
        THEN LET ra == recognize_audio(config, vosk_model, fs1, n + 1, ogg_path, env)
             IN  [created |-> <<wav_path>> \o ra.created] @@ Inner(ogg_path, ra) @@ ra
        ELSE LET h == DingtalkHandler(config, fs1, wav_path, env)
             IN  [result |-> h.result, fs |-> h.fs, removed |-> h.removed,
                  created |-> <<wav_path>>, tmp_count |-> n + 1] @@ NoInner

(***************************************************************************)
(* The environment of a recognition call and the ASR actions.               *)
(***************************************************************************)
Modes == {"GOOGLE", "VOSK", "HYBRID"}
FfmpegOutcomes == {"ok", "CalledProcessError", "FileNotFoundError"}
GoogleOutcomes ==
    { [exc |-> None, text |-> "ni hao"], [exc |-> None, text |-> ""],
      [exc |-> "UnknownValueError", text |-> ""], [exc |-> "RequestError", text |-> ""] }
VoskOutcomes ==
    { [exc |-> None, results |-> <<"ni hao">>, final_text |-> ""],
      [exc |-> None, results |-> << >>, final_text |-> ""],
      [exc |-> "Exception", results |-> << >>, final_text |-> ""] }
VoiceOgg == <<"v", "o", "i", "c", "e", ".", "o", "g", "g">>
SpeechWav == <<"s", "p", "e", "e", "c", "h", ".", "W", "A", "V">>
MissingWav == <<"m", "i", "s", "s", "i", "n", "g", ".", "w", "a", "v">>
OutputFormats == {Wav, Flac}
AudioPaths == {VoiceOgg, SpeechWav, MissingWav}
InitialFiles == (VoiceOgg :> Ogg) @@ (SpeechWav :> Wav)

\* the engines, ffmpeg inside convert_audio_format and os.remove inside
\* recognize_audio, as one call finds them; the second os.remove is reached
\* only after the first one failed
RecognitionEnvs ==
    {e \in [ffmpeg : FfmpegOutcomes, google : GoogleOutcomes, vosk : VoskOutcomes,
            remove1 : BOOLEAN, remove2 : BOOLEAN] : e.remove1 => e.remove2}
\* ffmpeg and os.remove as recognize_dingtalk_voice itself finds them
DingtalkEnvs ==
    {e \in [ffmpeg_dt : FfmpegOutcomes, remove3 : BOOLEAN, remove4 : BOOLEAN] :
        e.remove3 => e.remove4}
\* without ffmpeg recognize_dingtalk_voice reaches neither engine
NoFfmpegEnv ==
    [ffmpeg |-> "FileNotFoundError", google |-> [exc |-> None, text |-> ""],
     vosk |-> [exc |-> None, results |-> << >>, final_text |-> ""],
     remove1 |-> TRUE, remove2 |-> TRUE]

AsrNoCall == [op |-> "none", audio_path |-> << >>, result |-> Raise("", << >>),
              removed |-> << >>, created |-> << >>, files_before |-> {}] @@ NoInner

AsrFinish(op, audio_path, out) ==
    /\ files' = out.fs
    /\ tmp_count' = out.tmp_count
    /\ asr_last' = [f \in DOMAIN AsrNoCall |->
                       IF f = "op" THEN op
                       ELSE IF f = "audio_path" THEN audio_path
                       ELSE IF f = "files_before" THEN DOMAIN files
                       ELSE out[f]]
    /\ UNCHANGED <<program, baiduVars, threadVars, envVars, dtVars, asr_config>>

AsrRecognizeAudio ==
    /\ program = "asr"
    /\ tmp_count < MaxTemp
    /\ \E audio_path \in AudioPaths, env \in RecognitionEnvs :
          LET ra == recognize_audio(asr_config, asr_config.vosk_model, files,
                                    tmp_count, audio_path, env)
          IN  AsrFinish("recognize_audio", audio_path, Inner(audio_path, ra) @@ ra)

\* a direct call of convert_audio_format; the caller owns the file it
\* returns, and asr_last keeps describing the last recognition call
AsrConvertAudioFormat ==
    /\ program = "asr"
    /\ tmp_count < MaxTemp
    /\ \E input_path \in AudioPaths, output_format \in OutputFormats,
          ffmpeg \in FfmpegOutcomes :
          /\ ffmpeg = "ok" => Exists(files, input_path)
          /\ LET conv == convert_audio_format(asr_config, files, tmp_count, input_path,
                                              output_format, ffmpeg)
             IN  /\ files' = conv.fs
                 /\ tmp_count' = conv.tmp_count
    /\ UNCHANGED <<program, baiduVars, threadVars, envVars, dtVars, asr_config, asr_last>>

AsrRecognizeDingtalkVoice ==
    /\ program = "asr"
    /\ tmp_count + 2 <= MaxTemp
    /\ \E ogg_path \in AudioPaths, env \in RecognitionEnvs, dt \in DingtalkEnvs :
          \* ffmpeg is installed for both of its runs or for none
          /\ dt.ffmpeg_dt # "FileNotFoundError" => env.ffmpeg # "FileNotFoundError"
          /\ dt.ffmpeg_dt = "FileNotFoundError" => env = NoFfmpegEnv
          \* ffmpeg converts only a file that exists
          /\ dt.ffmpeg_dt = "ok" => Exists(files, ogg_path)
          /\ AsrFinish("recognize_dingtalk_voice", ogg_path,
                       recognize_dingtalk_voice(asr_config, asr_config.vosk_model, files,
                                                tmp_count, ogg_path, dt @@ env))

(***************************************************************************)
(* The specification.                                                       *)
(***************************************************************************)
vars == <<program, baiduVars, threadVars, envVars, dtVars, asrVars>>

Init ==
    /\ program \in {"baidu", "baidu_threads", "dingtalk", "asr"}
    /\ now = 0
    /\ environ \in [EnvNames -> EnvValues]
    /\ \A k \in EnvNames \ ProgramEnv(program) : environ[k] = None
    /\ init_environ = environ
    /\ \E c \in BOOLEAN, keys \in KeyArguments :
          LET self == BaiduAIClient_init(keys[1], keys[2], None, c, environ)
          IN  /\ api_key = self.api_key
              /\ secret_key = self.secret_key
              /\ cache_tokens = self.cache_tokens
              /\ tokens = self.tokens
              /\ token_expiry = self.token_expiry
              /\ has_endpoints = self.has_endpoints
              /\ last = [NoCall EXCEPT !.op = "__init__", !.result = self.result,
                                       !.init_keys = keys]
              /\ (program \notin {"baidu", "baidu_threads"} => c)
              /\ (program # "baidu_threads" => keys = <<"AK", "SK">>)
    /\ prev = TokenPart(NoCall)
    /\ threads = [th \in Threads |-> IdleThread]
    /\ published = NothingPublished
    /\ \E t \in {None, "D0"} :
          /\ dt_access_token = DingTalkAssistant_init(t, environ)
          /\ (program # "dingtalk" => t = None)
    /\ dt_last = DtNoCall
    /\ asr_config \in [mode : Modes, auto_convert_formats : BOOLEAN, vosk_model : BOOLEAN]
    /\ (program # "asr" => asr_config = [mode |-> "HYBRID", auto_convert_formats |-> TRUE,
                                         vosk_model |-> FALSE])
    /\ files = InitialFiles
    /\ tmp_count = 0
    /\ asr_last = AsrNoCall

Next ==
    \/ BaiduGetAccessToken
    \/ BaiduTextToSpeech
    \/ BaiduOcrGeneral
    \/ BaiduOcrAccurate
    \/ BaiduWenxinImageGenerate
    \/ Tick
    \/ ThreadCall
    \/ ThreadStep
    \/ SetEnv
    \/ DtGetAccessToken
    \/ DtSendTextMessage
    \/ DtSendMarkdownMessage
    \/ DtSendLinkMessage
    \/ DtBatchSend
    \/ AsrRecognizeAudio
    \/ AsrConvertAudioFormat
    \/ AsrRecognizeDingtalkVoice

Spec == Init /\ [][Next]_vars

(***************************************************************************)
(* Properties.  A call record holds what the mocked endpoints were set to   *)
(* answer during the call, the requests the call sent and how it ended.     *)
(* "The endpoint answers r" is read as: the endpoint is set to answer r to  *)
(* the request the operation is to send.                                    *)
(***************************************************************************)
BaiduCall(ops) == program = "baidu" /\ last.op \in ops
TokenOps == {"get_access_token", "text_to_speech", "ocr_general", "ocr_accurate",
             "wenxin_image_generate"}
OcrOps == {"ocr_general", "ocr_accurate"}

\* a success payload of the token endpoint
IsTokenOK(resp) ==
    /\ resp.status_code = 200
    /\ resp.is_json
    /\ "error" \notin DOMAIN resp.data
    /\ "access_token" \in DOMAIN resp.data
    /\ "expires_in" \in DOMAIN resp.data

\* the call before the last one was made for the cache key of the last call,
\* was not answered from the cache, and the token endpoint was set to answer
\* it with a success payload
AfterAcquisition(ops) ==
    /\ BaiduCall(ops)
    /\ prev.key = last.key
    /\ IsTokenOK(prev.token_resp)
    /\ ~prev.cache_hit

WindowEnd == ExpiryOf(prev.time, prev.token_resp.data.expires_in)

\* C1: a second get_access_token for the same cache key, made before the
\* expiry the first one recorded (exchange time + expires_in - 300), sends no
\* request to the token endpoint and returns the token the first returned.
C1_SecondCallReusesToken ==
    (AfterAcquisition({"get_access_token"}) /\ last.time < WindowEnd)
        => /\ last.token_reqs = << >>
           /\ last.result.kind = "return"
           /\ prev.token_result.kind = "return"
           /\ last.result.value = prev.token_result.value

\* C2: once the clock has reached the expiry recorded for a cache key,
\* get_access_token does not answer from the cache: it performs a fresh
\* exchange and returns the newly issued token.
C2_ExpiredTokenRefetched ==
    (AfterAcquisition({"get_access_token"}) /\ last.time >= WindowEnd
        /\ IsTokenOK(last.token_resp))
        => /\ ~last.cache_hit
           /\ Len(last.token_reqs) = 1
           /\ last.result.kind = "return"
           /\ last.result.value = last.token_resp.data.access_token

\* a vendor error envelope of the OCR or image-generation endpoint
IsApiEnvelope(resp) ==
    resp.is_json /\ "error_code" \in DOMAIN resp.data /\ "error_msg" \in DOMAIN resp.data
\* a vendor error envelope of the token endpoint
IsTokenEnvelope(resp) ==
    resp.is_json /\ "error" \in DOMAIN resp.data /\ "error_description" \in DOMAIN resp.data

\* C3: an operation whose endpoint answers with a vendor error envelope ends
\* in a failure that carries the envelope's code and its message; it never
\* returns a success payload.
C3_EnvelopeSurfacesCodeAndMessage ==
    /\ (BaiduCall(OcrOps \cup {"wenxin_image_generate"}) /\ IsTokenOK(last.token_resp)
            /\ IsApiEnvelope(last.api_resp))
          => /\ last.result.kind = "raise"
             /\ Carries(last.result, ToString(last.api_resp.data.error_code))
             /\ Carries(last.result, last.api_resp.data.error_msg)
    /\ (BaiduCall({"get_access_token"}) /\ IsTokenEnvelope(last.token_resp))
          => /\ last.result.kind = "raise"
             /\ Carries(last.result, last.token_resp.data.error)
             /\ Carries(last.result, last.token_resp.data.error_description)

\* the token endpoint answers with a non-success status or an error payload
DingTokenFailure(resp) ==
    ~Is2xx(resp.status_code) \/ ~resp.is_json \/ "accessToken" \notin DOMAIN resp.data
BaiduTokenFailure(resp) ==
    resp.status_code # 200 \/ IsTokenEnvelope(resp)

\* C4: when the token endpoint answers a credential exchange with a
\* non-success status or an error payload, get_access_token of either client
\* ends in a failure after exactly one request, returning no token.
C4_FailedExchangeRaises ==
    /\ (program = "dingtalk" /\ dt_last.op = "get_access_token"
            /\ DingTokenFailure(dt_last.resp))
          => dt_last.result.kind = "raise" /\ Len(dt_last.reqs) = 1
    /\ (BaiduCall({"get_access_token"}) /\ BaiduTokenFailure(last.token_resp))
          => last.result.kind = "raise" /\ Len(last.token_reqs) = 1

SendOps == {"send_text_message", "send_markdown_message", "send_link_message",
            "batch_send"}

\* C5: an operation whose API endpoint answers with a non-2xx status ends in
\* a failure; it returns no success payload.
C5_Non2xxFails ==
    /\ (program = "dingtalk" /\ dt_last.op \in SendOps
            /\ ~Is2xx(dt_last.resp.status_code))
          => dt_last.result.kind = "raise"
    /\ (BaiduCall(TokenOps \ {"get_access_token"})
            /\ ~Is2xx(last.api_resp.status_code))
          => last.result.kind = "raise"

\* C6: when the TTS endpoint answers with content type application/json and
\* a body carrying err_msg, text_to_speech ends in a failure carrying that
\* err_msg and does not return the body as audio.
C6_TtsJsonErrorSurfaces ==
    (BaiduCall({"text_to_speech"}) /\ IsTokenOK(last.token_resp)
        /\ IsJsonContentType(last.api_resp) /\ last.api_resp.is_json
        /\ "err_msg" \in DOMAIN last.api_resp.data)
      => /\ last.result.kind = "raise"
         /\ Carries(last.result, last.api_resp.data.err_msg)

\* an OCR success payload: words_result whose items all have words, no error_code
IsWordsPayload(resp) ==
    /\ resp.is_json
    /\ "error_code" \notin DOMAIN resp.data
    /\ "words_result" \in DOMAIN resp.data
    /\ \A i \in 1..Len(resp.data.words_result) :
          "words" \in DOMAIN resp.data.words_result[i]

\* C7: for an OCR success payload {words_result: [{words: w1}, ..., {words: wn}]}
\* ocr_general and ocr_accurate return exactly <<w1, ..., wn>>.
C7_OcrReturnsWordsInOrder ==
    (BaiduCall(OcrOps) /\ IsTokenOK(last.token_resp) /\ IsWordsPayload(last.api_resp))
      => /\ last.result.kind = "return"
         /\ Len(last.result.value) = Len(last.api_resp.data.words_result)
         /\ \A i \in 1..Len(last.result.value) :
               last.result.value[i] = last.api_resp.data.words_result[i].words

\* C8: when the image-generation endpoint answers {data: {image: base64(b)}}
\* without error_code, wenxin_image_generate returns exactly b.
C8_ImageRoundTrip ==
    \A b \in ImageBytes :
        (BaiduCall({"wenxin_image_generate"}) /\ IsTokenOK(last.token_resp)
            /\ last.api_resp = WenxinOK(b))
          => last.result.kind = "return" /\ last.result.value = b

\* C9: after the token endpoint returned {access_token: "T1", expires_in: 3600}
\* for the OCR scope, an OCR call made less than 3600 s later sends
\* access_token "T1" and makes no request to the token endpoint.
C9_OcrReusesTokenWithinHour ==
    (AfterAcquisition(OcrOps) /\ prev.token_resp = TokenOK("T1", 3600)
        /\ last.time < prev.time + 3600 /\ IsTokenOK(last.token_resp))
      => /\ last.token_reqs = << >>
         /\ Len(last.api_reqs) = 1
         /\ last.api_reqs[1].access_token = "T1"

\* the last call was recognize_audio in HYBRID mode and the cloud engine's
\* recognition ended with an error
HybridCloudFailed ==
    /\ program = "asr"
    /\ asr_last.op = "recognize_audio"
    /\ asr_config.mode = "HYBRID"
    /\ asr_last.google_calls # << >>
    /\ asr_last.google_result.error # None

SameOutcome(a, b) ==
    a.text = b.text /\ a.confidence = b.confidence /\ a.error = b.error

OfflineInvokedOnce ==
    /\ asr_last.google_calls = <<asr_last.converted_path>>
    /\ asr_last.vosk_calls = <<asr_last.converted_path>>

\* C10: in HYBRID mode, when the cloud engine fails with an error,
\* the offline engine is invoked exactly once on the converted path the cloud
\* engine was given, and its result is returned as the final result.
C10_HybridFallback ==
    HybridCloudFailed
      => /\ OfflineInvokedOnce
         /\ asr_last.result.kind = "return"
         /\ SameOutcome(asr_last.result.value, asr_last.vosk_result)

\* C11: a thread that left get_access_token by the cache-hit path compared
\* the clock against an expiry, and returned a token, that one and the same
\* acquisition wrote.
C11_CacheHitSeesOneAcquisition ==
    \A th \in Threads :
        (program = "baidu_threads" /\ threads[th].pc = "done" /\ threads[th].cache_hit)
            => threads[th].token_by = threads[th].expiry_by

\* some thread left get_access_token by the cache-hit path
C11_CacheHitTaken ==
    \E th \in Threads : threads[th].pc = "done" /\ threads[th].cache_hit

\* the last call was a message send that posted its request
Sent == program = "dingtalk" /\ dt_last.op \in SendOps /\ dt_last.reqs # << >>

\* the keys of the BaiduAIClient are the constructor's arguments, or else
\* what the environment held when the client was constructed
KeysFromConstruction ==
    program \in {"baidu", "baidu_threads"}
      => /\ api_key = Or(last.init_keys[1], Getenv(init_environ, "BAIDU_API_KEY"))
         /\ secret_key = Or(last.init_keys[2], Getenv(init_environ, "BAIDU_SECRET_KEY"))

\* C12 as stated: whatever the environment is changed to after construction,
\* the keys of the BaiduAIClient and the robot code a send operation posts are
\* the argument given or else the value the environment held at construction.
C12_Original ==
    /\ KeysFromConstruction
    /\ Sent => dt_last.reqs[1].json.robotCode
                  = Or(dt_last.robot_code, Getenv(init_environ, "DINGTALK_ROBOT_CODE"))

\* C12 amended: the keys of the BaiduAIClient and the access token of the
\* DingTalkAssistant are fixed at construction and a later change of the
\* environment never changes them; the robot code a send operation posts is
\* its robot_code argument or else DINGTALK_ROBOT_CODE as it is when the
\* operation is called.
C12_EnvDefaults ==
    /\ KeysFromConstruction
    /\ Sent => /\ dt_last.reqs[1].token_header = dt_last.token_before
               /\ dt_last.reqs[1].json.robotCode
                     = Or(dt_last.robot_code, dt_last.env_robot_code)
    /\ (program = "dingtalk" /\ dt_last.op = "none")
          => dt_access_token \in {"D0", Getenv(init_environ, "DINGTALK_ACCESS_TOKEN")}

\* a send without robot_code argument, made after DINGTALK_ROBOT_CODE was
\* changed, posted the changed value
C12_Witness ==
    /\ Sent
    /\ dt_last.robot_code = None
    /\ dt_last.env_robot_code # Getenv(init_environ, "DINGTALK_ROBOT_CODE")
    /\ dt_last.reqs[1].json.robotCode = dt_last.env_robot_code

\* the last call was one of the two recognition entry points
AsrCalled ==
    program = "asr" /\ asr_last.op \in {"recognize_audio", "recognize_dingtalk_voice"}

Range(seq) == {seq[i] : i \in 1..Len(seq)}

\* C13: when recognize_audio or recognize_dingtalk_voice returns, every
\* temporary file the call created for format conversion has been removed.
C13_TempFilesRemoved ==
    (AsrCalled /\ asr_last.result.kind = "return")
        => \A p \in Range(asr_last.created) : ~Exists(files, p)

\* the last call ran recognize_audio (itself, or inside
\* recognize_dingtalk_voice) on an existing file
Recognized ==
    /\ program = "asr"
    /\ asr_last.ra_called
    /\ asr_last.ra_input \in asr_last.files_before \cup Range(asr_last.created)

\* a cloud result that carries an error or empty text
ErrorOrEmpty(r) == r.error # None \/ r.text = ""

\* which engines a recognize_audio call invoked: each at most once, the
\* offline engine never in GOOGLE mode, the cloud engine never in VOSK mode,
\* both only in HYBRID mode and only after a cloud result with an error or
\* with empty text
EnginesInvoked ==
    /\ Len(asr_last.google_calls) <= 1
    /\ Len(asr_last.vosk_calls) <= 1
    /\ asr_config.mode = "GOOGLE" => asr_last.vosk_calls = << >>
    /\ asr_config.mode = "VOSK" => asr_last.google_calls = << >>
    /\ (asr_last.google_calls # << >> /\ asr_last.vosk_calls # << >>)
          => asr_config.mode = "HYBRID" /\ ErrorOrEmpty(asr_last.google_result)

\* HYBRID mode, and the cloud engine returned non-empty text without error
CloudSucceeded ==
    /\ asr_config.mode = "HYBRID"
    /\ asr_last.google_calls # << >>
    /\ ~ErrorOrEmpty(asr_last.google_result)

CloudTextReturned ==
    /\ asr_last.ra_result.kind = "return"
    /\ asr_last.ra_result.value.text = asr_last.google_result.text
    /\ asr_last.ra_result.value.error = None

\* C14: the fallback is a single attempt, taken only in HYBRID mode
\* and only after a cloud result with an error or empty text; when the cloud
\* engine returns non-empty text without error the offline engine is not
\* invoked and the cloud text is returned.
C14_SingleFallback ==
    Recognized
      => /\ EnginesInvoked
         /\ CloudSucceeded => asr_last.vosk_calls = << >> /\ CloudTextReturned

\* C19: recognize_audio always returns; for a missing input file and for a
\* failure raised while removing the temporary file it returns a result with
\* empty text, confidence 0.0 and a non-empty error.
C19_NeverRaises ==
    (program = "asr" /\ asr_last.ra_called)
      => /\ asr_last.ra_result.kind = "return"
         /\ (~Recognized \/ asr_last.remove_failed)
               => /\ asr_last.ra_result.value.text = ""
                  /\ asr_last.ra_result.value.confidence = 0
                  /\ asr_last.ra_result.value.error # None

\* C20: the only files recognize_audio and recognize_dingtalk_voice remove
\* are temporary files the call itself created; every file that existed
\* before the call, the caller's input among them, exists after it.
C20_InputNeverDeleted ==
    AsrCalled
      => /\ Range(asr_last.removed) \subseteq Range(asr_last.created)
         /\ asr_last.files_before \subseteq DOMAIN files

\* a conversion inside the call failed and recognition ran on the
\* unconverted path; the call removed a temporary file of its own and the
\* caller's file is still there
C20_Witness ==
    /\ AsrCalled
    /\ asr_last.ra_called
    /\ asr_last.converted_path = asr_last.ra_input
    /\ Len(asr_last.created) = 2
    /\ asr_last.removed # << >>
    /\ asr_last.audio_path \in asr_last.files_before
    /\ Exists(files, asr_last.audio_path)

\* C15: a token exchange answered with a success payload at time t records
\* the expiry t + expires_in - 300 for the cache key before the token is
\* returned; when expires_in is below 300 the next get_access_token for the
\* key performs a fresh exchange, not a cache hit.
C15_ExpiryRecorded ==
    /\ (BaiduCall(TokenOps) /\ IsTokenOK(last.token_resp) /\ ~last.cache_hit)
          => /\ last.token_result.kind = "return"
             /\ last.key \in DOMAIN token_expiry
             /\ token_expiry[last.key]
                   = last.time + last.token_resp.data.expires_in - 300
    /\ (AfterAcquisition({"get_access_token"}) /\ IsTokenOK(last.token_resp)
            /\ prev.token_resp.data.expires_in < 300)
          => ~last.cache_hit /\ Len(last.token_reqs) = 1

BaiduPrograms == {"baidu", "baidu_threads"}

\* C16: constructing a BaiduAIClient completes without error, every member
\* the client reads is a member of BaiduAIService, the endpoint table exists,
\* and no operation ends in an AttributeError.
C16_ConstructionCompletes ==
    program \in BaiduPrograms
      => /\ \A i \in 1..Len(EndpointMembers) : HasMember(EndpointMembers[i])
         /\ has_endpoints
         /\ last.result.exc # "AttributeError"
         /\ \A th \in Threads : threads[th].result.exc # "AttributeError"

\* the last call was an API operation whose credential acquisition failed
AcquisitionFailed ==
    BaiduCall(TokenOps \ {"get_access_token"}) /\ last.token_result.kind = "raise"

\* C17: an API operation whose credential acquisition fails ends in that
\* failure, sends no request to its API endpoint and leaves the tokens and
\* the expiries of the cache as they were before the call.
C17_FailedAcquisitionNoEffect ==
    AcquisitionFailed
      => /\ last.result = last.token_result
         /\ last.api_reqs = << >>
         /\ tokens = last.tokens_before
         /\ token_expiry = last.expiry_before

\* an OCR call ended in the failure of its credential acquisition
C17_Witness ==
    /\ AcquisitionFailed
    /\ last.op = "ocr_general"
    /\ last.result.kind = "raise"
    /\ last.api_reqs = << >>

\* the access token was unset, or there was no robot code in the argument
\* nor in the environment, when the last DingTalk call was made
Unready ==
    \/ ~Truthy(dt_last.token_before)
    \/ ~Truthy(Or(dt_last.robot_code, dt_last.env_robot_code))

\* C18: a message-send operation called while the access token is unset or
\* no robot code is available raises before any request is made.
C18_NoSendWithoutTokenOrRobot ==
    (program = "dingtalk" /\ dt_last.op \in SendOps /\ Unready)
      => dt_last.reqs = << >> /\ dt_last.result.kind = "raise"

====
